---------------------------- MODULE Spec2Model ----------------------------
(***************************************************************************)
(* A model of dh_segment_torch/data/color_labels.py: the ColorLabels       *)
(* mapping (colors, optional one-hot rows, optional label names), its      *)
(* constructors, its JSON serializer, its filter, and the two pure         *)
(* functions get_all_one_hots and all_one_hot_and_colors.                  *)
(*                                                                         *)
(* Representation.                                                         *)
(*  - A Python list or tuple is a sequence.                                *)
(*  - An Optional value is a sequence of length at most one: None is <<>>  *)
(*    and a present value x is <<x>>.  So the empty list, present, is      *)
(*    << <<>> >>, and differs from None.                                   *)
(*  - A color is a triple of integers.                                     *)
(*  - A one-hot entry is a number in [0, 1], integral (0, 1) or            *)
(*    fractional.  It is stored in fixed point as its numerator over Den:  *)
(*    0 is 0, 1/2 is 1, 1 is 2 (Den = 2).  Integers that are not one-hot   *)
(*    entries (bits of get_all_one_hots, color channels, lengths) are      *)
(*    plain integers.                                                      *)
(***************************************************************************)
EXTENDS Integers, Sequences, FiniteSets

VARIABLES
    pc,                \* position: "start", "loop", "return", "built", "raised", "returned", "out"
    call,              \* the entry point called and its arguments
    self,              \* Optional: the ColorLabels object the constructor built
    raised,            \* the exception that left the entry point, or "none"
    warned,            \* whether logger.warning was called
    file,              \* Optional: the JSON document to_json wrote
    out,               \* Optional: the object returned by a follow-up classmethod
    outRaised,         \* the exception that left the follow-up call, or "none"
    outWarned,         \* whether the follow-up call called logger.warning
    follow,            \* the follow-up call made on self, and its argument
    val,               \* the value returned by a pure function
    num_tries_left,    \* local of from_labels_multilabel
    one_hot_encoding,  \* local of from_labels_multilabel
    colors,            \* local of from_labels_multilabel
    attempts           \* history: per attempt made, whether its colors were unique

vars == <<pc, call, self, raised, warned, file, out, outRaised, outWarned, follow, val,
          num_tries_left, one_hot_encoding, colors, attempts>>

---------------------------------------------------------------------------
(* Bounds of the model.                                                    *)

MaxRows == 2        \* rows of a mapping given to the constructor directly
MaxBits == 5        \* classes given to get_all_one_hots
MaxClasses == 3     \* base colors given to from_colors_multilabel
MaxRecords == 3     \* records given to from_list_of_color_labels
MaxLabels == 2      \* labels given to from_labels_multilabel

---------------------------------------------------------------------------
(* Optional values and Python truthiness.                                  *)

None == <<>>
Some(x) == <<x>>
IsNone(o) == Len(o) = 0
Get(o) == o[1]

\* bool(x) for x an Optional[List]: None and the empty list are both falsy
Truthy(o) == Len(o) = 1 /\ Len(o[1]) > 0

RECURSIVE Sum(_)
Sum(s) == IF Len(s) = 0 THEN 0 ELSE Head(s) + Sum(Tail(s))

RECURSIVE Pow2(_)
Pow2(n) == IF n = 0 THEN 1 ELSE 2 * Pow2(n - 1)

\* a & b on non-negative integers
RECURSIVE BitAnd(_, _)
BitAnd(a, b) ==
    IF a = 0 \/ b = 0 THEN 0
    ELSE (a % 2) * (b % 2) + 2 * BitAnd(a \div 2, b \div 2)

\* all sequences over S of length 0..n
SeqsUpTo(S, n) == UNION {[1..k -> S] : k \in 0..n}

---------------------------------------------------------------------------
(* One-hot entries in fixed point.                                         *)

Den == 2
Num(k) == k * Den                 \* the integer k as a one-hot entry
IsIntegral(x) == x % Den = 0
\* np.int32(x): truncation toward zero of a non-negative number
Int32(x) == Num(x \div Den)


---------------------------------------------------------------------------
(* ColorLabels: the object, its properties, its constructor.               *)

\* property multilabel
Multilabel(obj) == ~IsNone(obj.one_hot_encoding)

\* property num_classes, on the fields the constructor has just assigned
NumClasses(cs, ohe) ==
    IF Truthy(ohe) THEN Len(Get(ohe)[1]) ELSE Len(cs)

\* a mutant of RowCountMismatch: "<" where the code has "!="
RowCountMismatchOneSided(cs, ohe) ==
    Truthy(ohe) /\ Len(cs) < Len(Get(ohe))

\* __init__: "if one_hot_encoding: if len(colors) != len(one_hot_encoding): raise"
RowCountMismatch(cs, ohe) ==
    Truthy(ohe) /\ Len(cs) # Len(Get(ohe))

\* __init__: "if labels: if self.num_classes != len(self.labels): raise"
LabelCountMismatch(cs, ohe, labels) ==
    Truthy(labels) /\ NumClasses(cs, ohe) # Len(Get(labels))

\* _check_empty_labels_one_hot: some column of the one-hot table sums to 0
\* (the table is rectangular, its width is that of its first row)
CheckEmptyLabelsOneHot(rows) ==
    \E j \in 1..Len(rows[1]) :
        Sum([i \in 1..Len(rows) |-> rows[i][j]]) = 0

\* the names selected by one row: np.array(labels)[line.astype(bool)];
\* the "+"-joined string is kept as the sequence of the names it joins
RECURSIVE Masked(_, _)
Masked(names, line) ==
    IF Len(names) = 0 \/ Len(line) = 0 THEN <<>>
    ELSE (IF Head(line) # 0 THEN <<Head(names)>> ELSE <<>>)
         \o Masked(Tail(names), Tail(line))

\* log_labels as __init__ derives it
LogLabels(ohe, labels) ==
    IF ~Truthy(labels) THEN None
    ELSE IF Truthy(ohe)
         THEN Some([i \in 1..Len(Get(ohe)) |->
                      IF i = 1 THEN <<"background">>
                      ELSE Masked(Get(labels), Get(ohe)[i])])
         ELSE labels

\* ColorLabels(colors, one_hot_encoding, labels): what the call raises, the
\* object it builds, and whether it logged a warning
ColorLabelsInit(cs, ohe, labels) ==
    IF RowCountMismatch(cs, ohe)
    THEN [raised |-> "ValueError", obj |-> None, warned |-> FALSE]
    ELSE IF LabelCountMismatch(cs, ohe, labels)
    THEN [raised |-> "ValueError", obj |-> None,
          warned |-> Truthy(ohe) /\ CheckEmptyLabelsOneHot(Get(ohe))]
    ELSE [raised |-> "none",
          obj |-> Some([colors |-> cs, one_hot_encoding |-> ohe,
                        labels |-> labels, log_labels |-> LogLabels(ohe, labels)]),
          warned |-> Truthy(ohe) /\ CheckEmptyLabelsOneHot(Get(ohe))]

---------------------------------------------------------------------------
(* get_all_one_hots and all_one_hot_and_colors.                            *)

\* the rows in the order of the docstring's example: bit j at position n-1-j
GetAllOneHotsMsbFirst(n) ==
    [i \in 1..Pow2(n) |->
        [j \in 1..n |-> IF BitAnd(i - 1, Pow2(n - j)) > 0 THEN 1 ELSE 0]]

\* ((np.arange(0, 2**n)[:, None] & (1 << np.arange(n))) > 0).astype(int)
GetAllOneHots(n) ==
    [i \in 1..Pow2(n) |->
        [j \in 1..n |-> IF BitAnd(i - 1, Pow2(j - 1)) > 0 THEN 1 ELSE 0]]

\* one_hots.tolist() as rows of one-hot entries
ToList(one_hots) ==
    [i \in 1..Len(one_hots) |-> [j \in 1..Len(one_hots[i]) |-> Num(one_hots[i][j])]]

\* np.where(one_hot)[0]: the positions that are set, ascending
Where(one_hot) == {j \in 1..Len(one_hot) : one_hot[j] # 0}

\* np.round(s / k) for integers s >= 0, k > 0: to nearest, ties to even
Round(s, k) ==
    LET q == s \div k
        r == s % k
    IN  IF 2 * r < k THEN q
        ELSE IF 2 * r > k THEN q + 1
        ELSE IF q % 2 = 0 THEN q ELSE q + 1

\* the sum of channel c of the base colors at the positions in idx
RECURSIVE ChannelSum(_, _, _)
ChannelSum(base, idx, c) ==
    IF idx = {} THEN 0
    ELSE LET j == CHOOSE x \in idx : TRUE
         IN  base[j][c] + ChannelSum(base, idx \ {j}, c)

\* astype(int) of the mean without np.round: truncation
MixColorTruncated(base, one_hot) ==
    IF Sum(one_hot) = 0 THEN <<0, 0, 0>>
    ELSE [c \in 1..3 |->
            ChannelSum(base, Where(one_hot), c) \div Cardinality(Where(one_hot))]

\* the loop body of all_one_hot_and_colors: the color of one row
MixColor(base, one_hot) ==
    IF Sum(one_hot) = 0 THEN <<0, 0, 0>>
    ELSE [c \in 1..3 |->
            Round(ChannelSum(base, Where(one_hot), c), Cardinality(Where(one_hot)))]

\* all_one_hot_and_colors(colors): (one_hots.tolist(), final_colors)
AllOneHotAndColors(base) ==
    LET one_hots == GetAllOneHots(Len(base))
    IN  <<ToList(one_hots),
          [i \in 1..Len(one_hots) |-> MixColor(base, one_hots[i])]>>

---------------------------------------------------------------------------
(* Parsers.                                                                *)

\* parse_validate_one_hot(one_hot): a sequence of numbers is coerced; all
\* integral values must be 0 or 1, otherwise every value must lie in [0, 1]
ParseValidateOneHot(one_hot) ==
    IF \A i \in 1..Len(one_hot) : IsIntegral(one_hot[i])
    THEN IF \E i \in 1..Len(one_hot) : one_hot[i] \notin {Num(0), Num(1)}
         THEN [raised |-> "ValueError", value |-> <<>>]
         ELSE [raised |-> "none",
               value |-> [i \in 1..Len(one_hot) |-> Int32(one_hot[i])]]
    ELSE IF \E i \in 1..Len(one_hot) : one_hot[i] < Num(0) \/ one_hot[i] > Num(1)
         THEN [raised |-> "ValueError", value |-> <<>>]
         ELSE [raised |-> "none", value |-> one_hot]

\* parse_and_validate_color (dh_segment_torch.data.utils): an integer triple
\* with every channel in 0..255 is returned, anything else is refused
ParseAndValidateColor(color) ==
    IF \A c \in 1..3 : color[c] \in 0..255
    THEN [raised |-> "none", value |-> color]
    ELSE [raised |-> "ValueError", value |-> <<>>]

---------------------------------------------------------------------------
(* from_list_of_color_labels.                                              *)

\* the state of the locals before the loop
ListLoopInit(labels) ==
    [raised |-> "none", colors |-> <<>>, one_hot_encoding |-> None,
     labels |-> labels, has_one_hot |-> "None", has_labels |-> "None",
     one_hot_size |-> None]

\* the "label" part of the loop body (lines 193-201), on locals st
ListLoopLabel(st, label) ==
    IF IsNone(label.label)
    THEN [st EXCEPT !.has_labels = "False"]
    ELSE IF st.has_labels = "False"
    THEN [st EXCEPT !.raised = "ValueError"]
    ELSE IF st.has_labels = "None"
    THEN [st EXCEPT !.has_labels = "True",
                    !.labels = Some(<<Get(label.label)>>)]
    ELSE [st EXCEPT !.labels = Some(Append(Get(st.labels), Get(label.label)))]

\* the "one_hot" part of the loop body (lines 176-191), on locals st
ListLoopOneHot(st, label) ==
    IF IsNone(label.one_hot)
    THEN [st EXCEPT !.has_one_hot = "False"]
    ELSE LET first == st.has_one_hot = "None"
             has == IF first THEN "True" ELSE st.has_one_hot
             ohe == IF first THEN Some(<<>>) ELSE st.one_hot_encoding
             parsed == ParseValidateOneHot(Get(label.one_hot))
             size == IF IsNone(st.one_hot_size) THEN Len(parsed.value)
                     ELSE Get(st.one_hot_size)
         IN  IF parsed.raised # "none" THEN [st EXCEPT !.raised = parsed.raised]
             ELSE IF has # "True" THEN [st EXCEPT !.raised = "ValueError"]
             ELSE IF size # Len(parsed.value) THEN [st EXCEPT !.raised = "ValueError"]
             ELSE [st EXCEPT !.has_one_hot = has,
                             !.one_hot_size = Some(size),
                             !.one_hot_encoding = Some(Append(Get(ohe), parsed.value))]

\* one iteration of the loop over the records
ListLoopBody(st, label) ==
    IF IsNone(label.color) THEN [st EXCEPT !.raised = "ValueError"]
    ELSE LET color == ParseAndValidateColor(Get(label.color))
         IN  IF color.raised # "none" THEN [st EXCEPT !.raised = color.raised]
             ELSE LET st1 == [st EXCEPT !.colors = Append(st.colors, color.value)]
                      st2 == ListLoopOneHot(st1, label)
                  IN  IF st2.raised # "none" THEN st2 ELSE ListLoopLabel(st2, label)

\* the loop: the locals after the records, or the first exception
RECURSIVE ListLoop(_, _)
ListLoop(st, color_labels) ==
    IF st.raised # "none" \/ Len(color_labels) = 0 THEN st
    ELSE ListLoop(ListLoopBody(st, Head(color_labels)), Tail(color_labels))

\* from_list_of_color_labels(color_labels, labels)
FromListOfColorLabelsResult(color_labels, labels) ==
    LET st == ListLoop(ListLoopInit(labels), color_labels)
    IN  IF st.raised # "none"
        THEN [raised |-> st.raised, obj |-> None, warned |-> FALSE]
        ELSE ColorLabelsInit(st.colors, st.one_hot_encoding, st.labels)

---------------------------------------------------------------------------
(* from_filter_by_colors, to_json, from_labels_json_file.                  *)

\* the indices of the rows whose color is in keep, ascending, from index i on
RECURSIVE KeptFrom(_, _, _)
KeptFrom(cs, keep, i) ==
    IF i > Len(cs) THEN <<>>
    ELSE (IF cs[i] \in keep THEN <<i>> ELSE <<>>) \o KeptFrom(cs, keep, i + 1)

\* from_filter_by_colors(color_labels, colors); indexing a list past its
\* end raises IndexError
FromFilterByColorsResult(color_labels, keep) ==
    LET kept == KeptFrom(color_labels.colors, keep, 1)
        new_colors == [k \in 1..Len(kept) |-> color_labels.colors[kept[k]]]
        indexed ==
            IF Truthy(color_labels.one_hot_encoding)
            THEN Get(color_labels.one_hot_encoding)
            ELSE IF Truthy(color_labels.labels) THEN Get(color_labels.labels)
            ELSE color_labels.colors
        new_one_hot_encoding ==
            IF Truthy(color_labels.one_hot_encoding) /\ Len(kept) > 0
            THEN Some([k \in 1..Len(kept) |->
                         Get(color_labels.one_hot_encoding)[kept[k]]])
            ELSE None
        new_labels ==
            IF Truthy(color_labels.one_hot_encoding) THEN color_labels.labels
            ELSE IF Truthy(color_labels.labels) /\ Len(kept) > 0
            THEN Some([k \in 1..Len(kept) |-> Get(color_labels.labels)[kept[k]]])
            ELSE None
    IN  IF \E k \in 1..Len(kept) : kept[k] > Len(indexed)
        THEN [raised |-> "IndexError", obj |-> None, warned |-> FALSE]
        ELSE ColorLabelsInit(new_colors, new_one_hot_encoding, new_labels)

\* the document to_json dumps: np.int32(...).tolist() of the colors (integers
\* already) and of the one-hot rows, null for a falsy one_hot_encoding
ToJsonKwargs(obj) ==
    [colors |-> obj.colors,
     one_hot_encoding |->
        IF Truthy(obj.one_hot_encoding)
        THEN Some([i \in 1..Len(Get(obj.one_hot_encoding)) |->
                     [j \in 1..Len(Get(obj.one_hot_encoding)[i]) |->
                        Int32(Get(obj.one_hot_encoding)[i][j])]])
        ELSE None,
     labels |-> obj.labels]

\* from_labels_json_file on the document, or on a path where nothing was written
FromLabelsJsonFileResult(f) ==
    IF IsNone(f)
    THEN [raised |-> "FileNotFoundError", obj |-> None, warned |-> FALSE]
    ELSE ColorLabelsInit(Get(f).colors, Get(f).one_hot_encoding, Get(f).labels)

---------------------------------------------------------------------------
(* The inputs the entry points are called with.                            *)

Names == <<"a", "b", "c", "d", "e">>
LabelList(n) == SubSeq(Names, 1, n)

\* direct constructor calls: colors, rectangular one-hot tables over
\* {0, 1/2, 1} (present and empty included), label lists.  A ragged table
\* is not enumerated: np.array of it is refused or an object array,
\* depending on the numpy installed.
CtorColors == {<<0, 0, 0>>, <<255, 0, 0>>}
OneHotValues == {Num(0), 1, Num(1)}
Widths == {0, 1, 2}
OneHotTables ==
    UNION {[1..r -> [1..w -> OneHotValues]] : r \in 0..MaxRows, w \in Widths}
CtorOneHots == {None} \cup {Some(t) : t \in OneHotTables}
CtorLabels == {None} \cup {Some(LabelList(n)) : n \in 0..MaxRows}

\* records of from_list_of_color_labels: a color (absent, present),
\* a one-hot vector (absent, [1], [0, 1], [1/2], [2]), a label (absent, "a")
RecordColors == {None, Some(<<255, 0, 0>>)}
RecordOneHots ==
    {None, Some(<<Num(1)>>), Some(<<Num(0), Num(1)>>), Some(<<1>>), Some(<<Num(2)>>)}
RecordLabels == {None, Some("a")}
Records == [color : RecordColors, one_hot : RecordOneHots, label : RecordLabels]
ListLabels == {None, Some(<<"x">>)}

\* base colors of from_colors_multilabel
BaseColors ==
    {<<0, 0, 0>>, <<255, 0, 0>>, <<0, 0, 255>>, <<1, 2, 3>>, <<0, 1, 2>>,
     <<2, 1, 1>>, <<256, 0, 0>>}

\* the colors n_colors may return
GenColors == {<<0, 0, 0>>, <<255, 0, 0>>, <<0, 0, 255>>}

\* n_colors(k) (dh_segment_torch.data.utils): some k colors
NColors(k) == [1..k -> GenColors]

\* the sets of colors from_filter_by_colors is asked to keep
KeepSets == SUBSET CtorColors

---------------------------------------------------------------------------
(* from_labels_multilabel.                                                 *)

NumTries == 10

\* a mutant of Unique: every attempt is taken as collision-free
UniqueAlways(cs) == TRUE

\* len(colors) == len(set(colors))
Unique(cs) == Len(cs) = Cardinality({cs[i] : i \in 1..Len(cs)})

---------------------------------------------------------------------------
(* The state machine.                                                      *)

Init ==
    /\ pc = "start"
    /\ call = <<"none">>
    /\ self = None
    /\ raised = "none"
    /\ warned = FALSE
    /\ file = None
    /\ out = None
    /\ outRaised = "none"
    /\ outWarned = FALSE
    /\ follow = <<"none">>
    /\ val = <<>>
    /\ num_tries_left = 0
    /\ one_hot_encoding = <<>>
    /\ colors = <<>>
    /\ attempts = <<>>

\* the entry point returns what the constructor built, or raises
Built(r) ==
    /\ self' = r.obj
    /\ raised' = r.raised
    /\ warned' = (warned \/ r.warned)
    /\ pc' = IF r.raised = "none" THEN "built" ELSE "raised"

\* ColorLabels(colors, one_hot_encoding, labels)
New(cs, ohe, labels) ==
    /\ pc = "start"
    /\ call' = <<"ColorLabels", cs, ohe, labels>>
    /\ Built(ColorLabelsInit(cs, ohe, labels))
    /\ UNCHANGED <<file, out, outRaised, outWarned, follow, val, num_tries_left,
                   one_hot_encoding, colors, attempts>>

\* ColorLabels.from_list_of_color_labels(color_labels, labels)
FromListOfColorLabels(color_labels, labels) ==
    /\ pc = "start"
    /\ call' = <<"from_list_of_color_labels", color_labels, labels>>
    /\ Built(FromListOfColorLabelsResult(color_labels, labels))
    /\ UNCHANGED <<file, out, outRaised, outWarned, follow, val, num_tries_left,
                   one_hot_encoding, colors, attempts>>

\* ColorLabels.from_colors_multilabel(colors, labels); val is what
\* all_one_hot_and_colors returned
FromColorsMultilabel(cs, labels) ==
    /\ pc = "start"
    /\ call' = <<"from_colors_multilabel", cs, labels>>
    /\ IF \E i \in 1..Len(cs) : ParseAndValidateColor(cs[i]).raised # "none"
       THEN /\ Built([raised |-> "ValueError", obj |-> None, warned |-> FALSE])
            /\ val' = val
       ELSE /\ val' = AllOneHotAndColors(
                        [i \in 1..Len(cs) |-> ParseAndValidateColor(cs[i]).value])
            /\ Built(ColorLabelsInit(val'[2], Some(val'[1]), labels))
    /\ UNCHANGED <<file, out, outRaised, outWarned, follow, num_tries_left,
                   one_hot_encoding, colors, attempts>>

\* get_all_one_hots(num_classes)
GetAllOneHotsCall(num_classes) ==
    /\ pc = "start"
    /\ call' = <<"get_all_one_hots", num_classes>>
    /\ val' = GetAllOneHots(num_classes)
    /\ pc' = "returned"
    /\ UNCHANGED <<self, raised, warned, file, out, outRaised, outWarned, follow,
                   num_tries_left, one_hot_encoding, colors, attempts>>

\* ColorLabels.from_labels_multilabel(labels), up to the loop
FromLabelsMultilabel(labels) ==
    /\ pc = "start"
    /\ call' = <<"from_labels_multilabel", labels>>
    /\ num_tries_left' = NumTries
    /\ pc' = "loop"
    /\ UNCHANGED <<self, raised, warned, file, out, outRaised, outWarned, follow,
                   val, one_hot_encoding, colors, attempts>>

\* one iteration of "while num_tries_left", with its break
LoopIteration ==
    /\ pc = "loop"
    /\ num_tries_left # 0
    /\ num_tries_left' = num_tries_left - 1
    /\ \E base_colors \in NColors(Len(call[2])) :
          /\ one_hot_encoding' = AllOneHotAndColors(base_colors)[1]
          /\ colors' = AllOneHotAndColors(base_colors)[2]
    /\ attempts' = Append(attempts, Unique(colors'))
    /\ pc' = IF Unique(colors') THEN "return" ELSE "loop"
    /\ UNCHANGED <<call, self, raised, warned, file, out, outRaised, outWarned,
                   follow, val>>

\* the else clause of the loop: the condition became false without a break
LoopElse ==
    /\ pc = "loop"
    /\ num_tries_left = 0
    /\ warned' = TRUE
    /\ one_hot_encoding' = ToList(GetAllOneHots(Len(call[2])))
    /\ colors' \in NColors(Pow2(Len(call[2])))
    /\ pc' = "return"
    /\ UNCHANGED <<call, self, raised, file, out, outRaised, outWarned, follow, val,
                   num_tries_left, attempts>>

\* return cls(colors, one_hot_encoding, labels)
LoopReturn ==
    /\ pc = "return"
    /\ Built(ColorLabelsInit(colors, Some(one_hot_encoding), Some(call[2])))
    /\ UNCHANGED <<call, file, out, outRaised, outWarned, follow, val, num_tries_left,
                   one_hot_encoding, colors, attempts>>

\* self.to_json(path)
ToJson ==
    /\ pc = "built"
    /\ IsNone(file)
    /\ file' = Some(ToJsonKwargs(Get(self)))
    /\ UNCHANGED <<pc, call, self, raised, warned, out, outRaised, outWarned,
                   follow, val, num_tries_left, one_hot_encoding, colors, attempts>>

\* the follow-up call returns an object, or raises
Followed(name, r) ==
    /\ follow' = name
    /\ out' = r.obj
    /\ outRaised' = r.raised
    /\ outWarned' = r.warned
    /\ pc' = "out"

\* ColorLabels.from_labels_json_file(path)
FromLabelsJsonFile ==
    /\ pc = "built"
    /\ Followed(<<"from_labels_json_file">>, FromLabelsJsonFileResult(file))
    /\ UNCHANGED <<call, self, raised, warned, file, val, num_tries_left,
                   one_hot_encoding, colors, attempts>>

\* ColorLabels.from_filter_by_colors(self, keep); it reads no file, and is
\* called on the states where none was written
FromFilterByColors(keep) ==
    /\ pc = "built"
    /\ IsNone(file)
    /\ Followed(<<"from_filter_by_colors", keep>>,
                FromFilterByColorsResult(Get(self), keep))
    /\ UNCHANGED <<call, self, raised, warned, file, val, num_tries_left,
                   one_hot_encoding, colors, attempts>>

\* every entry point is called on the initial state, with every input
Next ==
    \/ /\ pc = "start"
       /\ \E cs \in SeqsUpTo(CtorColors, MaxRows), ohe \in CtorOneHots,
             labels \in CtorLabels : New(cs, ohe, labels)
    \/ /\ pc = "start"
       /\ \E color_labels \in SeqsUpTo(Records, MaxRecords), labels \in ListLabels :
             FromListOfColorLabels(color_labels, labels)
    \/ /\ pc = "start"
       /\ \E cs \in SeqsUpTo(BaseColors, MaxClasses) :
             \E labels \in {None, Some(LabelList(Len(cs)))} :
                FromColorsMultilabel(cs, labels)
    \/ /\ pc = "start"
       /\ \E n \in 0..MaxBits : GetAllOneHotsCall(n)
    \/ /\ pc = "start"
       /\ \E n \in 0..MaxLabels : FromLabelsMultilabel(LabelList(n))
    \/ LoopIteration
    \/ LoopElse
    \/ LoopReturn
    \/ ToJson
    \/ FromLabelsJsonFile
    \/ \E keep \in KeepSets : FromFilterByColors(keep)

Spec == Init /\ [][Next]_vars

---------------------------------------------------------------------------
(* Properties.                                                             *)

\* two Optional lists hold the same elements (None and [] hold none)
SameElements(a, b) ==
    /\ Truthy(a) = Truthy(b)
    /\ Truthy(a) => Get(a) = Get(b)

\* C1: for every constructed mapping m, reading back the file that
\* m.to_json wrote yields a mapping with m's colors, one_hot_encoding and
\* labels, element for element.
C1_RoundTrip ==
    (pc = "out" /\ follow[1] = "from_labels_json_file" /\ ~IsNone(file)) =>
        /\ outRaised = "none"
        /\ Get(out).colors = Get(self).colors
        /\ SameElements(Get(out).one_hot_encoding, Get(self).one_hot_encoding)
        /\ SameElements(Get(out).labels, Get(self).labels)

\* C2: a constructor call with one_hot_encoding present (not None) whose
\* row count differs from the number of colors fails; every constructed
\* mapping with one_hot_encoding present has as many one-hot rows as colors.
C2_RowCountChecked ==
    /\ (call[1] = "ColorLabels" /\ ~IsNone(call[3])
            /\ Len(Get(call[3])) # Len(call[2])) => raised = "ValueError"
    /\ (~IsNone(self) /\ Multilabel(Get(self))) =>
            Len(Get(Get(self).one_hot_encoding)) = Len(Get(self).colors)

\* C3: a constructor call with labels present (not None) and len(labels)
\* different from num_classes (the length of a one-hot vector when
\* multilabel, otherwise the number of colors) fails.  Calls whose one-hot
\* table is present and empty have no one-hot vector and are left out.
C3_LabelCountChecked ==
    (call[1] = "ColorLabels" /\ ~IsNone(call[4])
        /\ (IsNone(call[3]) \/ Truthy(call[3]))
        /\ Len(Get(call[4])) #
             (IF ~IsNone(call[3]) THEN Len(Get(call[3])[1]) ELSE Len(call[2])))
    => raised = "ValueError"

\* C4: for every constructed mapping m and every set S of colors,
\* from_filter_by_colors(m, S) succeeds and returns the rows of m whose
\* color is in S, in order; a multilabel m keeps each retained row's one-hot
\* vector and m's labels; a single-label m with labels keeps each retained
\* row's label.
C4_FilterKeepsRows ==
    (pc = "out" /\ follow[1] = "from_filter_by_colors") =>
        LET m == Get(self)
            kept == KeptFrom(m.colors, follow[2], 1)
        IN  /\ outRaised = "none"
            /\ Get(out).colors = [k \in 1..Len(kept) |-> m.colors[kept[k]]]
            /\ (Truthy(m.one_hot_encoding) /\ Len(kept) > 0) =>
                   /\ Get(Get(out).one_hot_encoding) =
                         [k \in 1..Len(kept) |-> Get(m.one_hot_encoding)[kept[k]]]
                   /\ Get(out).labels = m.labels
            /\ (~Truthy(m.one_hot_encoding) /\ Truthy(m.labels) /\ Len(kept) > 0) =>
                   Get(Get(out).labels) =
                      [k \in 1..Len(kept) |-> Get(m.labels)[kept[k]]]

\* the records of the from_list_of_color_labels call
Recs == call[2]
IsListCall == call[1] = "from_list_of_color_labels"

\* C5: from_list_of_color_labels fails, and returns no mapping, when some
\* record has no color, when some record has a one-hot vector and some
\* record has none (in any order), or when two records have one-hot vectors
\* of different lengths.
C5_ListRejects ==
    (/\ IsListCall
     /\ \/ \E i \in 1..Len(Recs) : IsNone(Recs[i].color)
        \/ /\ \E i \in 1..Len(Recs) : ~IsNone(Recs[i].one_hot)
           /\ \E i \in 1..Len(Recs) : IsNone(Recs[i].one_hot)
        \/ \E i, j \in 1..Len(Recs) :
              /\ ~IsNone(Recs[i].one_hot)
              /\ ~IsNone(Recs[j].one_hot)
              /\ Len(Get(Recs[i].one_hot)) # Len(Get(Recs[j].one_hot)))
    => (raised = "ValueError" /\ IsNone(self) /\ pc = "raised")

\* a record with a one-hot vector followed by one without, every record
\* with a color: the loop ends without raising and the constructor refuses
C5_Witness ==
    /\ IsListCall
    /\ Len(Recs) = 2
    /\ \A i \in 1..2 : ~IsNone(Recs[i].color)
    /\ Recs[1].one_hot = Some(<<Num(1)>>)
    /\ IsNone(Recs[2].one_hot)
    /\ pc = "raised"

\* bit j (the 2^j bit) of i
Bit(i, j) == (i \div (2 ^ j)) % 2

SetBits(i, n) == {j \in 1..n : Bit(i, j - 1) = 1}

IsMixCall ==
    /\ call[1] = "from_colors_multilabel"
    /\ \A i \in 1..Len(call[2]) : \A c \in 1..3 : call[2][i][c] \in 0..255

\* C7: for n base colors in 0..255, all_one_hot_and_colors returns the 2^n
\* rows of get_all_one_hots(n) and 2^n colors in the same order: (0,0,0) for
\* the all-zero row, base color j for the row with only bit j set, and
\* otherwise, per channel, an integer within 1/2 of the mean of the base
\* colors whose bits are set.
C7_MixedColors ==
    IsMixCall =>
        LET base == call[2]
            n == Len(base)
        IN  /\ raised = "none"
            /\ Get(self).colors = val[2]
            /\ Get(self).one_hot_encoding = Some(val[1])
            /\ Len(val[1]) = 2 ^ n
            /\ Len(val[2]) = 2 ^ n
            /\ val[1] = ToList(GetAllOneHots(n))
            /\ \A i \in 1..(2 ^ n) :
                  LET bits == SetBits(i - 1, n)
                      k == Cardinality(bits)
                  IN  /\ k = 0 => val[2][i] = <<0, 0, 0>>
                      /\ \A j \in 1..n : bits = {j} => val[2][i] = base[j]
                      /\ k > 0 => \A c \in 1..3 :
                            LET d == k * val[2][i][c] - ChannelSum(base, bits, c)
                            IN  2 * d <= k /\ -2 * d <= k

\* three base colors whose blue channels sum to 260: the row of all three
\* gets 87, the nearest integer to 86.67
C7_Witness ==
    /\ call[1] = "from_colors_multilabel"
    /\ call[2] = <<<<0, 0, 255>>, <<1, 2, 3>>, <<0, 1, 2>>>>
    /\ pc = "built"
    /\ val[2][8] = <<0, 1, 87>>

\* C8: for 2 classes get_all_one_hots returns the rows in the order of its
\* docstring, [[0, 0], [0, 1], [1, 0], [1, 1]].
C8_DocstringOrder ==
    (call = <<"get_all_one_hots", 2>> /\ pc = "returned") =>
        val = <<<<0, 0>>, <<0, 1>>, <<1, 0>>, <<1, 1>>>>

PairwiseDistinct(cs) == \A i, j \in 1..Len(cs) : i # j => cs[i] # cs[j]
IsLoopCall == call[1] = "from_labels_multilabel"
AllCollided == \A i \in 1..Len(attempts) : ~attempts[i]

\* C9: from_labels_multilabel makes at most 10 attempts; it uses the rows
\* and mixed colors of the first attempt whose 2^n colors are pairwise
\* distinct and makes no attempt after it; it takes the fallback (warning,
\* rows of get_all_one_hots, one generated color per row) exactly when all
\* 10 attempts collided; either way a mapping of 2^n color rows and 2^n
\* one-hot rows is constructed and no error raised.
C9_BoundedRetries ==
    IsLoopCall =>
        LET n == Len(call[2])
        IN  /\ num_tries_left \in 0..10
            /\ Len(attempts) = 10 - num_tries_left
            /\ pc \in {"loop", "return", "built", "out"}
            /\ pc \in {"loop", "return"} => ENABLED Next
            /\ pc = "loop" => AllCollided /\ ~warned
            /\ pc # "loop" =>
                  /\ warned <=> (Len(attempts) = 10 /\ AllCollided)
                  /\ ~warned =>
                        /\ attempts[Len(attempts)]
                        /\ \A i \in 1..(Len(attempts) - 1) : ~attempts[i]
                        /\ PairwiseDistinct(colors)
                        /\ \E base \in NColors(n) :
                              /\ one_hot_encoding = AllOneHotAndColors(base)[1]
                              /\ colors = AllOneHotAndColors(base)[2]
                  /\ warned => one_hot_encoding = ToList(GetAllOneHots(n))
                  /\ Len(colors) = 2 ^ n
                  /\ Len(one_hot_encoding) = 2 ^ n
            /\ pc \in {"built", "out"} =>
                  /\ raised = "none"
                  /\ Get(self).colors = colors
                  /\ Get(self).one_hot_encoding = Some(one_hot_encoding)

\* ten colliding attempts, then the fallback, then the mapping
C9_Witness ==
    /\ IsLoopCall
    /\ Len(call[2]) = 2
    /\ pc = "built"
    /\ warned
    /\ Len(attempts) = 10
    /\ Len(Get(self).colors) = 4

\* C10: from_list_of_color_labels fails whenever some record carries a
\* "label" and some record does not, in any order.
C10_PartialLabelsRejected ==
    (/\ IsListCall
     /\ \E i \in 1..Len(Recs) : ~IsNone(Recs[i].label)
     /\ \E i \in 1..Len(Recs) : IsNone(Recs[i].label))
    => raised # "none"

=============================================================================
